---- MODULE Spec2Model ----
(***************************************************************************)
(* Population geometry management and merging of CytoPy                    *)
(* (src/CytoPy/data/populations.py).                                       *)
(*                                                                         *)
(* Python objects live on two heaps: pops (Population documents, the       *)
(* position in the sequence is the object's identity) and ctrl (the dict   *)
(* objects bound to Population._ctrl_index; a population holds a           *)
(* reference into this heap, so aliasing of a dict is visible).            *)
(* last is the record of the most recent call: its arguments as they were  *)
(* when the call started, how it ended and what it returned; calls counts   *)
(* the calls made so far.  clus is the heap of Cluster documents, exper a  *)
(* ClusteringExperiment (src/CytoPy2/data/clustering.py) together with    *)
(* the datasets of its HDF5 file.  procs holds the calls of                *)
(* merge_populations that run concurrently: for each its arguments, the    *)
(* statement it has reached and what it has produced so far.               *)
(***************************************************************************)
EXTENDS Integers, Sequences, FiniteSets, TLC

VARIABLES pops, ctrl, clus, exper, procs, last, calls

vars == <<pops, ctrl, clus, exper, procs, last, calls>>

(***************************************************************************)
(* Bounds                                                                  *)
(***************************************************************************)
\* number of calls made on the populations the state starts with
MaxCalls == 2

(***************************************************************************)
(* Python values                                                           *)
(***************************************************************************)
\* None where a string is expected (StringField without a value)
NoneStr == "<None>"

\* a numpy array holding the sequence s
Arr(s) == [tag |-> "ndarray", data |-> s]

\* a plain Python list holding the sequence s
List(s) == [tag |-> "list", data |-> s]

\* None where an array is expected (Population._index never assigned)
NoneVal == [tag |-> "None", data |-> <<>>]

\* len(v); None has no len()
HasLen(v) == v.tag # "None"

\* a dict is a set of <<key, value>> pairs with pairwise distinct keys
Keys(d) == {kv[1] : kv \in d}

DictSet(d, k, v) == {kv \in d : kv[1] # k} \cup {<<k, v>>}

DictGet(d, k) == (CHOOSE kv \in d : kv[1] = k)[2]

(***************************************************************************)
(* Geometries: PopulationGeometry and its subclasses Threshold, Polygon    *)
(***************************************************************************)
\* Population.geom never assigned
NoGeom == [kind |-> "None"]

PopulationGeometry(x, y, tx, ty) ==
    [kind |-> "PopulationGeometry", x |-> x, y |-> y,
     transform_x |-> tx, transform_y |-> ty]

Threshold(x, y, tx, ty, xt, yt) ==
    [kind |-> "Threshold", x |-> x, y |-> y,
     transform_x |-> tx, transform_y |-> ty,
     x_threshold |-> xt, y_threshold |-> yt]

Polygon(x, y, tx, ty, xs, ys) ==
    [kind |-> "Polygon", x |-> x, y |-> y,
     transform_x |-> tx, transform_y |-> ty,
     x_values |-> xs, y_values |-> ys]

\* getattr succeeds: the document class of g declares the field f
HasAttr(g, f) == f \in DOMAIN g

\* isinstance(g, K) for a geometry document g and a geometry class K:
\* Threshold and Polygon both derive from PopulationGeometry
isinstance(g, K) ==
    /\ g.kind # "None"
    /\ \/ g.kind = K
       \/ K = "PopulationGeometry"

\* type(g)
type(g) == g.kind

(***************************************************************************)
(* Shapes.  The polygons of the model are rectilinear: their rings run     *)
(* along the lines of the integer grid, and a shape is the set of unit     *)
(* cells its ring encloses (a cell is named by its lower left corner).     *)
(***************************************************************************)
SetMin(S) == CHOOSE m \in S : \A v \in S : m <= v

SetMax(S) == CHOOSE m \in S : \A v \in S : m >= v

Min(a, b) == IF a <= b THEN a ELSE b

Max(a, b) == IF a >= b THEN a ELSE b

\* zip(x_values, y_values): as many points as the shorter list has
Points(g) ==
    [i \in 1..Min(Len(g.x_values), Len(g.y_values)) |->
        <<g.x_values[i], g.y_values[i]>>]

\* the cells inside the ring pts (implicitly closed): a cell is inside when
\* the ray from its centre to the left crosses an odd number of edges
CellsOf(pts) ==
    LET n == Len(pts)
        xs == {pts[i][1] : i \in 1..n}
        ys == {pts[i][2] : i \in 1..n}
        \* the vertical edges, as <<x, lower y, upper y, position in the ring>>
        vertical == {<<pts[k][1], Min(pts[k][2], pts[(k % n) + 1][2]),
                       Max(pts[k][2], pts[(k % n) + 1][2]), k>> :
                     k \in {i \in 1..n : pts[i][1] = pts[(i % n) + 1][1]
                                         /\ pts[i][2] # pts[(i % n) + 1][2]}}
    IN  IF n = 0 THEN {}
        ELSE {c \in (SetMin(xs)..(SetMax(xs) - 1)) \X (SetMin(ys)..(SetMax(ys) - 1)) :
                Cardinality({e \in vertical :
                               e[1] <= c[1] /\ e[2] <= c[2] /\ c[2] < e[3]}) % 2 = 1}

\* Polygon.shape: Poly(zip(x_values, y_values)); npoints tells an empty
\* polygon (no points) from one without area (points on one line)
shape(g) == [npoints |-> Len(Points(g)), cells |-> CellsOf(Points(g))]

\* Poly(...) raises ValueError for a ring of one or two points
ShapeFails(g) == Len(Points(g)) \in {1, 2}

area(s) == Cardinality(s.cells)

\* the distance of two whole numbers
Dist(m, n) == IF m >= n THEN m - n ELSE n - m

\* shapely intersects: the closed regions share at least one point (cells
\* that touch, even in one corner point, count)
intersects(a, b) ==
    \E c \in a.cells, d \in b.cells : Dist(c[1], d[1]) <= 1 /\ Dist(c[2], d[2]) <= 1

\* a.intersection(b).area
intersection_area(a, b) == Cardinality(a.cells \cap b.cells)

\* the union that keeps the first shape only
unary_union_first_only(a, b) == [geom_type |-> "Polygon", cells |-> a.cells]

\* unary_union([a, b]) of two polygons: the cells of both; one Polygon when
\* the two share a cell or an edge, a MultiPolygon when they are apart or
\* share no more than corner points, an empty collection without cells
unary_union(a, b) ==
    LET cells == a.cells \cup b.cells
        joined == \E c \in a.cells, d \in b.cells :
                     Dist(c[1], d[1]) + Dist(c[2], d[2]) <= 1
    IN  [geom_type |-> IF cells = {} THEN "GeometryCollection"
                       ELSE IF a.cells = {} \/ b.cells = {} \/ joined THEN "Polygon"
                       ELSE "MultiPolygon",
         cells |-> cells]

\* the direction in which the boundary of the cell set F leaves the grid
\* point v, with the cells on its right (clockwise)
Leaving(F, v) ==
    IF <<v[1], v[2]>> \in F /\ <<v[1] - 1, v[2]>> \notin F THEN <<0, 1>>
    ELSE IF <<v[1], v[2] - 1>> \in F /\ <<v[1], v[2]>> \notin F THEN <<1, 0>>
    ELSE IF <<v[1] - 1, v[2] - 1>> \in F /\ <<v[1], v[2] - 1>> \notin F THEN <<0, -1>>
    ELSE <<-1, 0>>

\* the walk along the boundary from v, reached in direction d, back to
\* start, keeping the points where it turns
RECURSIVE Walk(_, _, _, _, _)
Walk(F, v, d, start, acc) ==
    IF v = start
    THEN Append(acc, start)
    ELSE LET e == Leaving(F, v)
         IN  Walk(F, <<v[1] + e[1], v[2] + e[2]>>, e, start,
                  IF e # d THEN Append(acc, v) ELSE acc)

\* new_shape.exterior.coords: the closed outer ring of the polygon, from its
\* lowest leftmost corner; the boundaries of holes are not part of it
exterior(u) ==
    LET x0 == SetMin({c[1] : c \in u.cells})
        y0 == SetMin({c[2] : c \in {b \in u.cells : b[1] = x0}})
    IN  Walk(u.cells, <<x0, y0 + 1>>, <<0, 1>>, <<x0, y0>>, << <<x0, y0>> >>)

\* coords.xy: the x values and the y values of the points, apart
xy(coords) ==
    <<[i \in DOMAIN coords |-> coords[i][1]], [i \in DOMAIN coords |-> coords[i][2]]>>

(***************************************************************************)
(* Population                                                              *)
(***************************************************************************)
\* an IntField or FloatField without a value (None)
NoneNum == -1

\* one dict shared by all instances in place of ref (a mutable default)
Population_shared_dict(kw, ref) ==
    [population_name |-> kw.population_name,
     n               |-> kw.n,
     parent          |-> kw.parent,
     prop_of_parent  |-> kw.prop_of_parent,
     prop_of_total   |-> kw.prop_of_total,
     warnings        |-> kw.warnings,
     geom            |-> kw.geom,
     clusters        |-> kw.clusters,
     definition      |-> kw.definition,
     signature       |-> kw.signature,
     index           |-> kw.index,
     ctrl_index      |-> 1]

\* Population.__init__: index and ctrl_index are popped from the keyword
\* arguments and bound as they are (n is NOT derived from index); every
\* other keyword goes to the document fields.  ref is the dict object bound
\* to _ctrl_index: the caller's dict, or the fresh dict() of this call.
Population(kw, ref) ==
    [population_name |-> kw.population_name,
     n               |-> kw.n,
     parent          |-> kw.parent,
     prop_of_parent  |-> kw.prop_of_parent,
     prop_of_total   |-> kw.prop_of_total,
     warnings        |-> kw.warnings,
     geom            |-> kw.geom,
     clusters        |-> kw.clusters,
     definition      |-> kw.definition,
     signature       |-> kw.signature,
     index           |-> kw.index,
     ctrl_index      |-> ref]

\* Cluster(**kw): "index" is popped from the keyword arguments and bound as
\* it is, without the setter; every other keyword goes to the fields
Cluster(kw) ==
    [cluster_id   |-> kw.cluster_id,
     meta_label   |-> kw.meta_label,
     n            |-> kw.n,
     prop_of_root |-> kw.prop_of_root,
     index        |-> kw.index]

\* the field defaults of the Cluster document
ClusterDefaults ==
    [cluster_id   |-> NoneStr,
     meta_label   |-> NoneStr,
     n            |-> NoneNum,
     prop_of_root |-> NoneNum,
     index        |-> NoneVal]

\* Cluster.index setter: self.n = len(idx), then self._index = np.array(idx)
Cluster_index_setter(c, idx) ==
    IF ~HasLen(idx)
    THEN [outcome |-> "TypeError", clu |-> c]
    ELSE [outcome |-> "ok",
          clu |-> [c EXCEPT !.n = Len(idx.data), !.index = Arr(idx.data)]]

\* the field defaults of the Population document
Defaults ==
    [population_name |-> NoneStr,
     n               |-> NoneNum,
     parent          |-> "root",
     prop_of_parent  |-> NoneNum,
     prop_of_total   |-> NoneNum,
     warnings        |-> <<>>,
     geom            |-> NoGeom,
     clusters        |-> <<>>,
     definition      |-> NoneStr,
     signature       |-> {},
     index           |-> NoneVal]

\* Population.index setter: how it ended and the population after it
index_setter(p, idx) ==
    IF idx.tag # "ndarray"
    THEN [outcome |-> "AssertionError: idx should be type numpy.array", pop |-> p]
    ELSE [outcome |-> "ok",
          pop |-> [p EXCEPT !.n = Len(idx.data), !.index = Arr(idx.data)]]

\* Population.set_ctrl_index(**kwargs) on the dict d; kwargs is the sequence
\* of <<key, value>> in call order.  The loop writes entry by entry and stops
\* at the first value that is not an array.
RECURSIVE set_ctrl_index(_, _)
set_ctrl_index(d, kwargs) ==
    IF kwargs = <<>>
    THEN [outcome |-> "ok", dict |-> d]
    ELSE IF Head(kwargs)[2].tag # "ndarray"
         THEN [outcome |-> "AssertionError: ctrl_idx should be type numpy.array",
               dict |-> d]
         ELSE set_ctrl_index(DictSet(d, Head(kwargs)[1], Head(kwargs)[2]),
                             Tail(kwargs))

(***************************************************************************)
(* Merge helpers                                                           *)
(***************************************************************************)
\* the message of each assertion, named as in the error taxonomy
XTransformDiffers == "AxisMismatch: X dimension transform differs between left and right populations"

YTransformDiffers == "AxisMismatch: Y dimension transform differs between left and right populations"

XDiffers == "AxisMismatch: X dimension differs between left and right populations"

YDiffers == "AxisMismatch: Y dimension differs between left and right populations"

AxisMismatch == {XTransformDiffers, YTransformDiffers, XDiffers, YDiffers}

ParentMismatch == "ParentMismatch: Parent populations do not match"

GeometryTypeMismatch == "GeometryTypeMismatch: Geometries must be of the same type"

XThresholdDiffers == "ThresholdMismatch: X threshold should match between populations"

YThresholdDiffers == "ThresholdMismatch: Y threshold should match between populations"

ThresholdMismatch == {XThresholdDiffers, YThresholdDiffers}

NonOverlappingPopulations == "NonOverlappingPopulations: Invalid: non-overlapping populations"

OnlyPolygon == "AssertionError: Only Polygon geometries can be checked for overlap"

\* failures that are no assertion of the module
AttributeError == "AttributeError"

TypeError == "TypeError"

ValueError == "ValueError"

\* the two messages passed to warn()
ClustersVoid == "Associated clusters are now void. Repeat clustering on new population"

ControlsVoid == "Associated control indexes are now void. Repeat control gating on new population"

MergedMarker == "MERGED POPULATION"

\* the check with the assertion on y left out
_check_transforms_dimensions_without_y(left, right) ==
    IF left.geom.kind = "None" \/ right.geom.kind = "None"
    THEN AttributeError
    ELSE IF left.geom.transform_x # right.geom.transform_x THEN XTransformDiffers
    ELSE IF left.geom.transform_y # right.geom.transform_y THEN YTransformDiffers
    ELSE IF left.geom.x # right.geom.x THEN XDiffers
    ELSE "ok"

\* _check_transforms_dimensions: the first failing step, or "ok"
_check_transforms_dimensions(left, right) ==
    IF left.geom.kind = "None" \/ right.geom.kind = "None"
    THEN AttributeError
    ELSE IF left.geom.transform_x # right.geom.transform_x THEN XTransformDiffers
    ELSE IF left.geom.transform_y # right.geom.transform_y THEN YTransformDiffers
    ELSE IF left.geom.x # right.geom.x THEN XDiffers
    ELSE IF left.geom.y # right.geom.y THEN YDiffers
    ELSE "ok"

\* a float that is a ratio of whole numbers, as <<numerator, denominator>>
Ratio(n, d) == <<n, d>>

\* the return value 0.
Zero == Ratio(0, 1)

\* f > t
more_than(f, t) == f[1] * t[2] > t[1] * f[2]

\* overlap >= threshold
at_least(f, t) == f[1] * t[2] >= t[1] * f[2]

\* the area of the intersection over the area of the comparison shape
fraction_of_comparison(self_shape, comparison_poly) ==
    Ratio(intersection_area(self_shape, comparison_poly), area(comparison_poly))

\* self.shape.intersection(comparison_poly).area / self.shape.area
fraction(self_shape, comparison_poly) ==
    Ratio(intersection_area(self_shape, comparison_poly), area(self_shape))

ZeroDivisionError == "ZeroDivisionError"

TopologicalError == "TopologicalError"

\* how a call ends: with an exception, or with a returned value
Raised(e) == [outcome |-> e, value |-> Zero]

Returned(v) == [outcome |-> "ok", value |-> v]

\* Polygon.overlap(self, comparison_poly, threshold): the set of ways the
\* call can end.  For a ring that encloses no area the geometry library is
\* given an invalid polygon: whether intersects holds and whether
\* intersection raises is not fixed, and a found intersection of self is
\* divided by the area 0.0
overlap(self, comparison_poly, threshold) ==
    IF ShapeFails(self)
    THEN {Raised(ValueError)}
    ELSE IF shape(self).npoints = 0
    THEN {Returned(Zero)}
    ELSE IF area(shape(self)) = 0
    THEN {Returned(Zero), Raised(ZeroDivisionError), Raised(TopologicalError)}
    ELSE IF comparison_poly.npoints > 0 /\ area(comparison_poly) = 0
    THEN {Returned(Zero), Raised(TopologicalError)}
    ELSE IF intersects(shape(self), comparison_poly)
            /\ at_least(fraction(shape(self), comparison_poly), threshold)
    THEN {Returned(fraction(shape(self), comparison_poly))}
    ELSE {Returned(Zero)}

\* the check of the geometry types alone, the shapes never compared
_check_overlap_types_only(left, right) ==
    IF ~(isinstance(left.geom, "Polygon") /\ isinstance(right.geom, "Polygon"))
    THEN OnlyPolygon
    ELSE "ok"

\* _check_overlap(left, right) with error=True: the first failing step, or "ok"
_check_overlap(left, right) ==
    IF ~(isinstance(left.geom, "Polygon") /\ isinstance(right.geom, "Polygon"))
    THEN OnlyPolygon
    ELSE IF ShapeFails(left.geom) \/ ShapeFails(right.geom)
    THEN ValueError
    ELSE IF ~intersects(shape(left.geom), shape(right.geom))
         THEN NonOverlappingPopulations
         ELSE "ok"

\* insertion of v into the ascending duplicate-free sequence s
RECURSIVE Insert(_, _)
Insert(s, v) ==
    IF s = <<>> THEN <<v>>
    ELSE IF v = Head(s) THEN s
    ELSE IF v < Head(s) THEN <<v>> \o s
    ELSE <<Head(s)>> \o Insert(Tail(s), v)

\* the concatenation passed on as it is, np.unique forgotten
not_unique(a) == a

\* np.unique(a): the sorted distinct values of a
RECURSIVE unique(_)
unique(a) == IF a = <<>> THEN <<>> ELSE Insert(unique(Tail(a)), Head(a))

\* the two indexes joined as they are
_merge_index_concatenated(left, right) == Arr(left.index.data \o right.index.data)

\* _merge_index: np.unique(np.concatenate([left.index, right.index]))
_merge_index(left, right) == Arr(unique(left.index.data \o right.index.data))

\* the mean over the channels that both dicts have, the others left out
_merge_signatures_common_only(left, right) ==
    {<<c, (DictGet(left.signature, c) + DictGet(right.signature, c)) \div 2>> :
        c \in Keys(left.signature) \cap Keys(right.signature)}

\* _merge_signatures: DataFrame([left.signature, right.signature]).mean():
\* one column per channel of either dict, the mean over the rows that have
\* a value in the column (mean() skips the missing cells)
_merge_signatures(left, right) ==
    {<<c, IF c \in Keys(left.signature) /\ c \in Keys(right.signature)
          THEN (DictGet(left.signature, c) + DictGet(right.signature, c)) \div 2
          ELSE IF c \in Keys(left.signature)
               THEN DictGet(left.signature, c)
               ELSE DictGet(right.signature, c)>> :
        c \in Keys(left.signature) \cup Keys(right.signature)}

\* what a call of the merge leaves behind: how it ended, the keyword
\* arguments of the Population it built (when it built one), the messages
\* passed to warn(), and the value of left.clusters when it ended
Ended(outcome, kw, warned, lc) ==
    [outcome |-> outcome, kw |-> kw, warned |-> warned, left_clusters |-> lc]

\* the same, with the function in which the call ended
Via(f, ended) ==
    [outcome |-> ended.outcome, kw |-> ended.kw, warned |-> ended.warned,
     left_clusters |-> ended.left_clusters, via |-> f]

\* str() of a population name inside the f-string of the default name
FormatName(nm) == IF nm = NoneStr THEN "None" ELSE nm

\* the warnings of the right input put before those of the left
merged_warnings_right_first(left, right) ==
    right.warnings \o left.warnings \o <<MergedMarker>>

\* left.warnings + right.warnings + ["MERGED POPULATION"]
merged_warnings(left, right) ==
    left.warnings \o right.warnings \o <<MergedMarker>>

\* the y cuts taken as equal without a look at them
y_threshold_unchecked(left, right) == TRUE

\* left.geom.y_threshold == right.geom.y_threshold
same_y_threshold(left, right) == left.geom.y_threshold = right.geom.y_threshold

\* left.geom.x_threshold == right.geom.x_threshold
same_x_threshold(left, right) == left.geom.x_threshold = right.geom.x_threshold

\* _merge_thresholds.  dl and dr are the dicts bound to left.ctrl_index and
\* right.ctrl_index.  The keyword arguments of Population(...) are evaluated
\* in the order written: n, parent, warnings, index, geom, definition,
\* signature.
_merge_thresholds(left, right, new_population_name, dl, dr) ==
    LET void_clusters == left.clusters # <<>> \/ right.clusters # <<>>
        void_ctrl == Cardinality(dl) > 0 \/ Cardinality(dr) > 0
        lc == IF void_clusters THEN <<>> ELSE left.clusters
        warned == (IF void_clusters THEN <<ClustersVoid>> ELSE <<>>)
                  \o (IF void_ctrl THEN <<ControlsVoid>> ELSE <<>>)
        new_geom == Threshold(left.geom.x, left.geom.y,
                              left.geom.transform_x, left.geom.transform_y,
                              left.geom.x_threshold, left.geom.y_threshold)
    IN  IF ~HasAttr(right.geom, "x_threshold")
        THEN Ended(AttributeError, Defaults, <<>>, left.clusters)
        ELSE IF ~same_x_threshold(left, right)
        THEN Ended(XThresholdDiffers, Defaults, <<>>, left.clusters)
        ELSE IF ~same_y_threshold(left, right)
        THEN Ended(YThresholdDiffers, Defaults, <<>>, left.clusters)
        ELSE IF ~HasLen(left.index) \/ ~HasLen(right.index)
        THEN Ended(TypeError, Defaults, warned, lc)
        ELSE IF left.definition = NoneStr \/ right.definition = NoneStr
        THEN Ended(TypeError, Defaults, warned, lc)
        ELSE Ended("ok",
                   [Defaults EXCEPT
                      !.population_name = new_population_name,
                      !.n = Len(left.index.data) + Len(right.index.data),
                      !.parent = left.parent,
                      !.warnings = merged_warnings(left, right),
                      !.index = _merge_index(left, right),
                      !.geom = new_geom,
                      !.definition = left.definition \o "," \o right.definition,
                      !.signature = _merge_signatures(left, right)],
                   warned, lc)

\* _merge_polygons
_merge_polygons(left, right, new_population_name) ==
    LET chk == _check_overlap(left, right)
        new_shape == unary_union(shape(left.geom), shape(right.geom))
        x_y == xy(exterior(new_shape))
        new_geom == Polygon(left.geom.x, left.geom.y,
                            left.geom.transform_x, left.geom.transform_y,
                            x_y[1], x_y[2])
    IN  IF chk # "ok"
        THEN Ended(chk, Defaults, <<>>, left.clusters)
        ELSE IF new_shape.geom_type # "Polygon"
        THEN Ended(AttributeError, Defaults, <<>>, left.clusters)
        ELSE IF ~HasLen(left.index) \/ ~HasLen(right.index)
        THEN Ended(TypeError, Defaults, <<>>, left.clusters)
        ELSE Ended("ok",
                   [Defaults EXCEPT
                      !.population_name = new_population_name,
                      !.n = Len(left.index.data) + Len(right.index.data),
                      !.parent = left.parent,
                      !.warnings = merged_warnings(left, right),
                      !.index = _merge_index(left, right),
                      !.geom = new_geom,
                      !.signature = _merge_signatures(left, right)],
                   <<>>, left.clusters)

\* the parent assertion left out
same_parent_unchecked(left, right) == TRUE

\* the type assertion against the base class instead of type(right.geom)
same_type_base(left, right) == isinstance(left.geom, "PopulationGeometry")

\* the assertion on the parents in merge_populations
same_parent(left, right) == left.parent = right.parent

\* the assertion on the geometry types in merge_populations
same_type(left, right) == isinstance(left.geom, type(right.geom))

\* the name built from the two inputs whatever the caller supplied
name_always_default(left, right, new_population_name) ==
    "merge_" \o FormatName(left.population_name)
    \o "_" \o FormatName(right.population_name)

\* new_population_name or f"merge_{left.population_name}_{right.population_name}":
\* None and the empty string are both falsy
name_or_default(left, right, new_population_name) ==
    IF new_population_name # NoneStr /\ new_population_name # ""
    THEN new_population_name
    ELSE "merge_" \o FormatName(left.population_name)
         \o "_" \o FormatName(right.population_name)

\* merge_populations.  new_population_name is NoneStr when the caller
\* omits it.
merge_populations(left, right, new_population_name, dl, dr) ==
    LET chk == _check_transforms_dimensions(left, right)
        name == name_or_default(left, right, new_population_name)
    IN  IF chk # "ok"
        THEN Via("_check_transforms_dimensions",
                 Ended(chk, Defaults, <<>>, left.clusters))
        ELSE IF ~same_parent(left, right)
        THEN Via("merge_populations",
                 Ended(ParentMismatch, Defaults, <<>>, left.clusters))
        ELSE IF ~same_type(left, right)
        THEN Via("merge_populations",
                 Ended(GeometryTypeMismatch, Defaults, <<>>, left.clusters))
        ELSE IF isinstance(left.geom, "Threshold")
        THEN Via("_merge_thresholds",
                 _merge_thresholds(left, right, name, dl, dr))
        ELSE Via("_merge_polygons", _merge_polygons(left, right, name))

(***************************************************************************)
(* ClusteringExperiment (src/CytoPy2/data/clustering.py).  An experiment   *)
(* is its list of Cluster documents and its HDF5 file, a dict from dataset *)
(* names to the stored index.                                              *)
(***************************************************************************)
\* cluster_prefix, at its default
cluster_prefix == "cluster"

\* f"{self.cluster_prefix}_{cluster_i}"
ClusterId(cluster_i) == cluster_prefix \o "_" \o ToString(cluster_i)

\* the numbers a cluster id is read back to
ClusterNumbers == 0..9

\* int(c.cluster_id.split("_")[1])
ClusterNumber(cluster_id) == CHOOSE i \in ClusterNumbers : ClusterId(i) = cluster_id

\* max([...]) of a list that is not empty
ListMax(s) == CHOOSE m \in {s[i] : i \in DOMAIN s} : \A i \in DOMAIN s : m >= s[i]

\* h5py.File(path, "w"): the file is created anew, whatever it held
open_w(file) == {}

\* ClusteringExperiment.add_cluster: how the call ended and the experiment
\* after it.  The statements run in the order written: the number of the
\* new cluster, the file, the Cluster document, the append.
add_cluster(e, cluster_idx, root_n, label) ==
    IF e.clusters = <<>>
    THEN [outcome |-> ValueError, exper |-> e]
    ELSE LET cluster_i ==
                 ListMax([i \in DOMAIN e.clusters |->
                            ClusterNumber(e.clusters[i].cluster_id)]) + 1
             cluster_id == ClusterId(cluster_i)
             f == DictSet(open_w(e.file), cluster_id, cluster_idx.data)
         IN  IF root_n = 0
             THEN [outcome |-> ZeroDivisionError, exper |-> [e EXCEPT !.file = f]]
             ELSE [outcome |-> "ok",
                   exper |-> [clusters |->
                                Append(e.clusters,
                                       [cluster_id   |-> cluster_id,
                                        n_events     |-> Len(cluster_idx.data),
                                        prop_of_root |-> Ratio(Len(cluster_idx.data), root_n),
                                        label        |-> label]),
                              file |-> f]]

(***************************************************************************)
(* Effects on the heap                                                     *)
(***************************************************************************)
\* the clusters of every population of the heap replaced, not only those
\* of the left input
voided_everywhere(heap, l, lc) ==
    IF lc = heap[l].clusters
    THEN heap
    ELSE [i \in DOMAIN heap |-> [heap[i] EXCEPT !.clusters = lc]]

\* left.clusters, right_clusters = [], []: the heap after the assignment,
\* lc being the value left.clusters has when the call ends
voided(heap, l, lc) == [heap EXCEPT ![l].clusters = lc]

(***************************************************************************)
(* Calls                                                                   *)
(***************************************************************************)
\* the record of a call: the operation, the objects it was given (0: none),
\* the heaps as they were when it started, how it ended, the object it
\* returned (0: none) and the messages it passed to warn()
Call(op, l, r, nm, outcome, result, warned, via) ==
    [op |-> op, left |-> l, right |-> r, name |-> nm,
     pre_pops |-> pops, pre_ctrl |-> ctrl,
     outcome |-> outcome, result |-> result, warned |-> warned, via |-> via]

\* Population(**kw) by a caller; ref = 0: no ctrl_index keyword, the object
\* gets the fresh dict() of this call; ref > 0: the caller passes the dict
\* object ctrl[ref]
Construct(kw, ref) ==
    /\ calls < MaxCalls
    /\ ref \in 0..Len(ctrl)
    /\ LET r == IF ref = 0 THEN Len(ctrl) + 1 ELSE ref
       IN  /\ pops' = Append(pops, Population(kw, r))
           /\ ctrl' = IF ref = 0 THEN Append(ctrl, {}) ELSE ctrl
           /\ last' = Call("Population", 0, 0, NoneStr, "ok", Len(pops) + 1, <<>>,
                           "__init__")
           /\ calls' = calls + 1
           /\ UNCHANGED <<clus, exper, procs>>

\* p.index = idx
SetIndex(p, idx) ==
    /\ calls < MaxCalls
    /\ p \in DOMAIN pops
    /\ LET res == index_setter(pops[p], idx)
       IN  /\ pops' = [pops EXCEPT ![p] = res.pop]
           /\ ctrl' = ctrl
           /\ last' = Call("index", p, 0, NoneStr, res.outcome, 0, <<>>, "index")
           /\ calls' = calls + 1
           /\ UNCHANGED <<clus, exper, procs>>

\* p.set_ctrl_index(**kwargs)
SetCtrlIndex(p, kwargs) ==
    /\ calls < MaxCalls
    /\ p \in DOMAIN pops
    /\ LET res == set_ctrl_index(ctrl[pops[p].ctrl_index], kwargs)
       IN  /\ ctrl' = [ctrl EXCEPT ![pops[p].ctrl_index] = res.dict]
           /\ pops' = pops
           /\ last' = Call("set_ctrl_index", p, 0, NoneStr, res.outcome, 0, <<>>,
                           "set_ctrl_index")
           /\ calls' = calls + 1
           /\ UNCHANGED <<clus, exper, procs>>

\* merge_populations(pops[l], pops[r], nm); the Population it returns is a
\* new object with the fresh dict() of its constructor call
Merge(l, r, nm) ==
    /\ calls < MaxCalls
    /\ l \in DOMAIN pops /\ r \in DOMAIN pops
    /\ calls' = calls + 1
    /\ UNCHANGED <<clus, exper, procs>>
    /\ LET res == merge_populations(pops[l], pops[r], nm,
                                    ctrl[pops[l].ctrl_index],
                                    ctrl[pops[r].ctrl_index])
           touched == voided(pops, l, res.left_clusters)
       IN  IF res.outcome = "ok"
           THEN /\ pops' = Append(touched, Population(res.kw, Len(ctrl) + 1))
                /\ ctrl' = Append(ctrl, {})
                /\ last' = Call("merge_populations", l, r, nm, "ok",
                                Len(pops) + 1, res.warned, res.via)
           ELSE /\ pops' = touched
                /\ ctrl' = ctrl
                /\ last' = Call("merge_populations", l, r, nm, res.outcome,
                                0, res.warned, res.via)

\* e.add_cluster(cluster_idx, root_n, label) on the experiment
AddCluster(cluster_idx, root_n, label) ==
    /\ calls < MaxCalls
    /\ calls' = calls + 1
    /\ LET res == add_cluster(exper, cluster_idx, root_n, label)
       IN  /\ exper' = res.exper
           /\ last' = Call("add_cluster", 0, 0, label, res.outcome, 0, <<>>,
                           "add_cluster")
    /\ UNCHANGED <<pops, ctrl, clus, procs>>

\* Cluster(**kw) by a caller
ConstructCluster(kw) ==
    /\ calls < MaxCalls
    /\ calls' = calls + 1
    /\ clus' = Append(clus, Cluster(kw))
    /\ last' = Call("Cluster", 0, 0, NoneStr, "ok", Len(clus) + 1, <<>>, "__init__")
    /\ UNCHANGED <<pops, ctrl, exper, procs>>

\* clus[c].index = idx
SetClusterIndex(c, idx) ==
    /\ calls < MaxCalls
    /\ c \in DOMAIN clus
    /\ calls' = calls + 1
    /\ LET res == Cluster_index_setter(clus[c], idx)
       IN  /\ clus' = [clus EXCEPT ![c] = res.clu]
           /\ last' = Call("Cluster.index", c, 0, NoneStr, res.outcome, 0, <<>>,
                           "index.setter")
    /\ UNCHANGED <<pops, ctrl, exper, procs>>

\* pops[p].geom.overlap(pops[q].geom.shape, t): the method is looked up on
\* the geometry of p, then the argument is evaluated, then the call is made
Overlap(p, q, t) ==
    /\ calls < MaxCalls
    /\ p \in DOMAIN pops /\ q \in DOMAIN pops
    /\ calls' = calls + 1
    /\ UNCHANGED <<pops, ctrl, clus, exper, procs>>
    /\ \E res \in
            IF ~isinstance(pops[p].geom, "Polygon")
            THEN {[outcome |-> AttributeError, value |-> Zero, via |-> "geom.overlap"]}
            ELSE IF ~isinstance(pops[q].geom, "Polygon")
            THEN {[outcome |-> AttributeError, value |-> Zero, via |-> "geom.shape"]}
            ELSE IF ShapeFails(pops[q].geom)
            THEN {[outcome |-> ValueError, value |-> Zero, via |-> "geom.shape"]}
            ELSE {[outcome |-> e.outcome, value |-> e.value, via |-> "overlap"] :
                    e \in overlap(pops[p].geom, shape(pops[q].geom), t)} :
          last' = [op |-> "overlap", left |-> p, right |-> q, name |-> NoneStr,
                   pre_pops |-> pops, pre_ctrl |-> ctrl,
                   outcome |-> res.outcome, result |-> 0, warned |-> <<>>,
                   via |-> res.via, threshold |-> t, value |-> res.value]

(***************************************************************************)
(* Inputs                                                                  *)
(***************************************************************************)
\* the gate of the spec's scenarios: CD3 against CD8, both logicle, cut at
\* (2, 2) (the model's cuts and coordinates are whole numbers)
T0 == Threshold("CD3", "CD8", "logicle", "logicle", 2, 2)

\* the square (0,0)-(5,5) and its right half, in grid units of 2.5
PolyA == Polygon("CD3", "CD8", "logicle", "logicle", <<0, 0, 2, 2, 0>>, <<0, 2, 2, 0, 0>>)

PolyB == Polygon("CD3", "CD8", "logicle", "logicle", <<1, 1, 2, 2, 1>>, <<0, 2, 2, 0, 0>>)

\* a population as a gate leaves it: index assigned through the setter
Gated(nm, parent, geom, idx, clusters, warnings) ==
    index_setter(Population([Defaults EXCEPT !.population_name = nm,
                                             !.parent = parent,
                                             !.geom = geom,
                                             !.clusters = clusters,
                                             !.warnings = warnings,
                                             !.definition = "+-",
                                             !.signature = {<<"CD3", 4>>}],
                            0),
                 Arr(idx)).pop

\* populations of one gate that differ in their events and clusters
DataPops ==
    {Gated("A", "root", g, idx, cl, <<>>) :
        g \in {T0, PolyA},
        idx \in {<<1, 2, 3>>, <<3, 4>>},
        cl \in {<<>>, <<"cluster_1">>}}

\* values assigned to Population.index
IndexValues == {Arr(<<5, 3, 5>>), List(<<1, 2>>)}

\* keyword arguments of set_ctrl_index
CtrlKwargs ==
    {<< <<"ctrl1", Arr(<<7>>)>> >>,
     << <<"ctrl2", Arr(<<8>>)>>, <<"ctrl1", List(<<9>>)>> >>}

\* keyword arguments of Population(...)
ConstructKwargs ==
    {[Defaults EXCEPT !.population_name = "C", !.n = 1000, !.geom = T0,
                      !.definition = "+-", !.index = idx] :
        idx \in {NoneVal, Arr(<<3, 4>>)}}

\* new_population_name of a merge
MergeNames == {NoneStr, "", "AB"}

NoCall == [op |-> "none", left |-> 0, right |-> 0, name |-> NoneStr,
           pre_pops |-> <<>>, pre_ctrl |-> <<>>,
           outcome |-> "ok", result |-> 0, warned |-> <<>>, via |-> "none"]

\* a ClusteringExperiment without clusters, its file without datasets
NoExperiment == [clusters |-> <<>>, file |-> {}]

\* two populations, each with its own empty ctrl_index dict
InitWith(D) ==
    /\ \E a \in D, b \in D :
          pops = <<[a EXCEPT !.ctrl_index = 1],
                   [b EXCEPT !.ctrl_index = 2, !.population_name = "B"]>>
    /\ ctrl = <<{}, {}>>
    /\ clus = <<>>
    /\ exper = NoExperiment
    /\ procs = <<>>
    /\ last = NoCall
    /\ calls = 0

Init == InitWith(DataPops)

Next ==
    \/ \E kw \in ConstructKwargs, ref \in 0..Len(ctrl) : Construct(kw, ref)
    \/ \E p \in DOMAIN pops, idx \in IndexValues : SetIndex(p, idx)
    \/ \E p \in DOMAIN pops, kwargs \in CtrlKwargs : SetCtrlIndex(p, kwargs)
    \/ \E l \in DOMAIN pops, r \in DOMAIN pops, nm \in MergeNames : Merge(l, r, nm)

Spec == Init /\ [][Next]_vars

(***************************************************************************)
(* The validation gates on one call: the inputs differ in geometry and     *)
(* parent, and merge_populations is applied once to every pair.            *)
(***************************************************************************)
\* the cell (2,2)-(3,3) meets PolyA and PolyB in the single point (2,2)
PolyC == Polygon("CD3", "CD8", "logicle", "logicle", <<2, 2, 3, 3, 2>>, <<2, 3, 3, 2, 2>>)

\* the cell (3,0)-(4,1) is apart from PolyA, PolyB and PolyC
PolyD == Polygon("CD3", "CD8", "logicle", "logicle", <<3, 3, 4, 4, 3>>, <<0, 1, 1, 0, 0>>)

Geometries ==
    {NoGeom,
     PopulationGeometry("CD3", "CD8", "logicle", "logicle"),
     PopulationGeometry("CD4", "CD8", "logicle", "logicle")}
    \cup {Threshold(x, y, tx, ty, 2, 2) :
            x \in {"CD3", "CD4"}, y \in {"CD8", "CD19"},
            tx \in {"logicle", "log"}, ty \in {"logicle", "log"}}
    \cup {Threshold("CD3", "CD8", "logicle", "logicle", 3, 2),
          Threshold("CD3", "CD8", "logicle", "logicle", 2, 3)}
    \cup {PolyA, PolyB, PolyC, PolyD,
          Polygon("CD3", "CD19", "logicle", "logicle", <<0, 0, 2, 2, 0>>, <<0, 2, 2, 0, 0>>)}

CheckPops ==
    {Gated("A", parent, g, <<1, 2, 3>>, <<>>, <<>>) :
        parent \in {"root", "CD3+"}, g \in Geometries}

InitChecks == InitWith(CheckPops)

\* one call of merge_populations on the populations the state starts with
MergeOnce(l, r, nm) == calls = 0 /\ Merge(l, r, nm)

NextChecks ==
    \E l \in DOMAIN pops, r \in DOMAIN pops, nm \in MergeNames : MergeOnce(l, r, nm)

SpecChecks == InitChecks /\ [][NextChecks]_vars

(***************************************************************************)
(* Metadata: populations that carry warnings and proportions are merged,   *)
(* and the results are merged again.                                       *)
(***************************************************************************)
\* proportions in percent: half of the parent, a quarter of all events
MetaPops ==
    {index_setter(Population([Defaults EXCEPT !.population_name = "A",
                                              !.n = 2,
                                              !.prop_of_parent = 50,
                                              !.prop_of_total = 25,
                                              !.warnings = w,
                                              !.geom = g,
                                              !.definition = "+-",
                                              !.signature = {<<"CD3", 4>>}],
                             0),
                  Arr(idx)).pop :
        g \in {T0, PolyA},
        w \in {<<>>, <<"low events">>, <<"no peak", "low events">>},
        idx \in {<<1, 2>>}}

InitMeta == InitWith(MetaPops)

NextMeta == \E l \in DOMAIN pops, r \in DOMAIN pops : Merge(l, r, NoneStr)

SpecMeta == InitMeta /\ [][NextMeta]_vars

(***************************************************************************)
(* Overlap: geometries of every kind, polygons without area among them,    *)
(* are asked for their overlap with the shape of a polygon.                *)
(***************************************************************************)
\* two points only: no ring
PolyTwoPoints == Polygon("CD3", "CD8", "logicle", "logicle", <<0, 2>>, <<0, 2>>)

\* three points on one line: a ring without area
PolyFlat == Polygon("CD3", "CD8", "logicle", "logicle", <<0, 1, 2>>, <<0, 0, 0>>)

\* x_values and y_values left at their default, the empty list
PolyEmpty == Polygon("CD3", "CD8", "logicle", "logicle", <<>>, <<>>)

OverlapPops ==
    {Gated("A", "root", g, <<1, 2, 3>>, <<>>, <<>>) :
        g \in {NoGeom, PopulationGeometry("CD3", "CD8", "logicle", "logicle"), T0,
               PolyA, PolyB, PolyC, PolyD, PolyTwoPoints, PolyFlat, PolyEmpty}}

\* the thresholds 0.0 (the default), 0.5, 0.6 and 1.0
OverlapThresholds == {Ratio(0, 1), Ratio(1, 2), Ratio(3, 5), Ratio(1, 1)}

InitOverlap == InitWith(OverlapPops)

NextOverlap ==
    \E p \in DOMAIN pops, q \in DOMAIN pops, t \in OverlapThresholds : Overlap(p, q, t)

SpecOverlap == InitOverlap /\ [][NextOverlap]_vars

(***************************************************************************)
(* Polygons: polygon gates of several forms are merged once.               *)
(***************************************************************************)
\* the square (0,0)-(3,3) without the cells (1,0) and (1,1): a U
PolyU ==
    Polygon("CD3", "CD8", "logicle", "logicle",
            <<0, 0, 3, 3, 2, 2, 1, 1, 0>>, <<0, 3, 3, 0, 0, 2, 2, 0, 0>>)

\* the cell (1,0)-(2,1), which closes the opening of the U at its end
PolyBar == Polygon("CD3", "CD8", "logicle", "logicle", <<1, 1, 2, 2, 1>>, <<0, 1, 1, 0, 0>>)

\* the rectangle (1,1)-(4,2), which sticks out of PolyA to the right
PolyE == Polygon("CD3", "CD8", "logicle", "logicle", <<1, 1, 4, 4, 1>>, <<1, 2, 2, 1, 1>>)

PolygonPops ==
    {Gated("A", "root", g, <<1, 2, 3>>, <<>>, <<>>) :
        g \in {PolyA, PolyB, PolyC, PolyE, PolyU, PolyBar}}

InitPolygons == InitWith(PolygonPops)

NextPolygons ==
    \E l \in DOMAIN pops, r \in DOMAIN pops, nm \in MergeNames : MergeOnce(l, r, nm)

SpecPolygons == InitPolygons /\ [][NextPolygons]_vars

(***************************************************************************)
(* Signatures: populations whose signatures name different channels are    *)
(* merged once.  The values are even, so that every mean is whole.         *)
(***************************************************************************)
Signatures ==
    {{}, {<<"CD3", 4>>}, {<<"CD8", 6>>}, {<<"CD3", 2>>, <<"CD8", 2>>}}

SignaturePops ==
    {index_setter(Population([Defaults EXCEPT !.population_name = "A",
                                              !.n = 2,
                                              !.geom = g,
                                              !.definition = "+-",
                                              !.signature = sig],
                             0),
                  Arr(<<1, 2>>)).pop :
        g \in {T0, PolyA}, sig \in Signatures}

InitSignatures == InitWith(SignaturePops)

NextSignatures ==
    \E l \in DOMAIN pops, r \in DOMAIN pops, nm \in MergeNames : MergeOnce(l, r, nm)

SpecSignatures == InitSignatures /\ [][NextSignatures]_vars

(***************************************************************************)
(* Clusters: Cluster documents are constructed and their index assigned.   *)
(***************************************************************************)
\* values given as index: lists as in the tests, an array, nothing
ClusterIndexValues ==
    {List(<<0, 1, 2, 3, 4>>), List(<<>>), Arr(<<7, 7>>), NoneVal}

\* keyword arguments of Cluster(...): n as a caller states it
ClusterKwargs ==
    {[ClusterDefaults EXCEPT !.cluster_id = "test", !.n = n, !.index = idx] :
        n \in {1000, 5, 0}, idx \in ClusterIndexValues}

InitClusters ==
    /\ pops = <<>>
    /\ ctrl = <<>>
    /\ clus = <<>>
    /\ exper = NoExperiment
    /\ procs = <<>>
    /\ last = NoCall
    /\ calls = 0

NextClusters ==
    \/ \E kw \in ClusterKwargs : ConstructCluster(kw)
    \/ \E c \in DOMAIN clus, idx \in ClusterIndexValues : SetClusterIndex(c, idx)

SpecClusters == InitClusters /\ [][NextClusters]_vars

(***************************************************************************)
(* Experiments: clusters are added to an experiment that has none, one or  *)
(* two clusters, each with its dataset in the file.                        *)
(***************************************************************************)
StoredCluster(i, idx) ==
    [cluster_id |-> ClusterId(i), n_events |-> Len(idx),
     prop_of_root |-> Ratio(Len(idx), 10), label |-> NoneStr]

Experiments ==
    {NoExperiment,
     [clusters |-> <<StoredCluster(1, <<1, 2>>)>>,
      file |-> {<<ClusterId(1), <<1, 2>>>>}],
     [clusters |-> <<StoredCluster(1, <<1, 2>>), StoredCluster(3, <<4>>)>>,
      file |-> {<<ClusterId(1), <<1, 2>>>>, <<ClusterId(3), <<4>>>>}]}

InitExperiment ==
    /\ pops = <<>>
    /\ ctrl = <<>>
    /\ clus = <<>>
    /\ exper \in Experiments
    /\ procs = <<>>
    /\ last = NoCall
    /\ calls = 0

NextExperiment ==
    \E cluster_idx \in {Arr(<<5, 6>>), Arr(<<7>>), Arr(<<>>)},
       root_n \in {0, 10}, label \in {NoneStr, "T cells"} :
        AddCluster(cluster_idx, root_n, label)

SpecExperiment == InitExperiment /\ [][NextExperiment]_vars

(***************************************************************************)
(* Repetition: populations of one Threshold gate are merged, and the       *)
(* results are merged again with the inputs and with each other.           *)
(***************************************************************************)
RepeatPops ==
    {Gated("A", "root", T0, idx, <<>>, <<>>) :
        idx \in {<<1, 2, 3>>, <<3, 4>>, <<5, 3, 5>>}}

InitRepeat == InitWith(RepeatPops)

NextRepeat == \E l \in DOMAIN pops, r \in DOMAIN pops : Merge(l, r, NoneStr)

SpecRepeat == InitRepeat /\ [][NextRepeat]_vars

(***************************************************************************)
(* Two calls of merge_populations that run at the same time, one on the    *)
(* populations 1 and 2 and one on the populations 3 and 4.  A call takes   *)
(* three steps on the heap: it reads its arguments for the checks, it      *)
(* rebinds left.clusters, and it reads its arguments again to build the    *)
(* Population it returns.  Each step sees the heap as the other call left  *)
(* it.                                                                     *)
(***************************************************************************)
ConcurrentPops ==
    {Gated("A", "root", g, <<1, 2, 3>>, cl, <<>>) :
        g \in {T0, Threshold("CD3", "CD8", "logicle", "logicle", 3, 2), PolyA},
        cl \in {<<>>, <<"cluster_1">>}}

\* a call that has not started; among is where the other calls stand
\* when this one takes its last step
Started(l, r, heap) ==
    [left |-> l, right |-> r, pc |-> "check", pre_pops |-> heap,
     outcome |-> "running", result |-> 0, warned |-> <<>>, among |-> {}]

\* where the calls other than p stand
Others(p) == {procs[q].pc : q \in DOMAIN procs \ {p}}

\* four populations, each with its own empty ctrl_index dict
ConcurrentHeap ==
    {<<[a EXCEPT !.ctrl_index = 1],
       [b EXCEPT !.ctrl_index = 2, !.population_name = "B"],
       [c EXCEPT !.ctrl_index = 3, !.population_name = "C"],
       [d EXCEPT !.ctrl_index = 4, !.population_name = "D"]>> :
        a \in ConcurrentPops, b \in ConcurrentPops,
        c \in ConcurrentPops, d \in ConcurrentPops}

InitConcurrent ==
    /\ pops \in ConcurrentHeap
    /\ ctrl = <<{}, {}, {}, {}>>
    /\ clus = <<>>
    /\ exper = NoExperiment
    /\ procs = <<Started(1, 2, pops), Started(3, 4, pops)>>
    /\ last = NoCall
    /\ calls = 0

\* merge_populations on the arguments of call p as the heap holds them now
Reading(p) ==
    LET l == procs[p].left
        r == procs[p].right
    IN  merge_populations(pops[l], pops[r], NoneStr,
                          ctrl[pops[l].ctrl_index], ctrl[pops[r].ctrl_index])

\* the assertions of merge_populations and of the function it hands over
\* to: a call that fails one of them ends before it has written anything
CheckStep(p) ==
    /\ procs[p].pc = "check"
    /\ LET res == Reading(p)
       IN  procs' = IF res.outcome \in {"ok", TypeError}
                    THEN [procs EXCEPT ![p].pc =
                            IF res.via = "_merge_thresholds" THEN "void" ELSE "build"]
                    ELSE [procs EXCEPT ![p].pc = "done",
                                       ![p].outcome = res.outcome,
                                       ![p].among = Others(p)]
    /\ UNCHANGED <<pops, ctrl, clus, exper, last, calls>>

\* _merge_thresholds, the two if statements: the warnings, and
\* left.clusters rebound
VoidStep(p) ==
    /\ procs[p].pc = "void"
    /\ LET res == Reading(p)
       IN  /\ pops' = voided(pops, procs[p].left, res.left_clusters)
           /\ procs' = [procs EXCEPT ![p].pc = "build", ![p].warned = res.warned]
    /\ UNCHANGED <<ctrl, clus, exper, last, calls>>

\* the Population(...) call that ends _merge_thresholds and _merge_polygons;
\* the object it returns is new, with the fresh dict() of the constructor
BuildStep(p) ==
    /\ procs[p].pc = "build"
    /\ LET res == Reading(p)
       IN  IF res.outcome = "ok"
           THEN /\ pops' = Append(pops, Population(res.kw, Len(ctrl) + 1))
                /\ ctrl' = Append(ctrl, {})
                /\ procs' = [procs EXCEPT ![p].pc = "done", ![p].outcome = "ok",
                                          ![p].result = Len(pops) + 1,
                                          ![p].among = Others(p)]
           ELSE /\ procs' = [procs EXCEPT ![p].pc = "done",
                                          ![p].outcome = res.outcome,
                                          ![p].among = Others(p)]
                /\ UNCHANGED <<pops, ctrl>>
    /\ UNCHANGED <<clus, exper, last, calls>>

NextConcurrent ==
    \E p \in DOMAIN procs : CheckStep(p) \/ VoidStep(p) \/ BuildStep(p)

SpecConcurrent == InitConcurrent /\ [][NextConcurrent]_vars

(***************************************************************************)
(* Properties                                                              *)
(***************************************************************************)
\* the state right after a call of merge_populations
MergeEnded == last.op = "merge_populations"

\* ... that returned a population
Accepted == MergeEnded /\ last.outcome = "ok"

\* the arguments as they were when the call started, and its result
L == last.pre_pops[last.left]

R == last.pre_pops[last.right]

Result == pops[last.result]

CtrlL == last.pre_ctrl[L.ctrl_index]

CtrlR == last.pre_ctrl[R.ctrl_index]

\* the identifiers held by an index
Ids(v) == {v.data[i] : i \in DOMAIN v.data}

Range(s) == {s[i] : i \in DOMAIN s}

NoDuplicates(s) == \A i \in DOMAIN s, j \in DOMAIN s : i # j => s[i] # s[j]

BothGeoms == L.geom.kind # "None" /\ R.geom.kind # "None"

AxesEqual ==
    /\ L.geom.x = R.geom.x
    /\ L.geom.y = R.geom.y
    /\ L.geom.transform_x = R.geom.transform_x
    /\ L.geom.transform_y = R.geom.transform_y

\* the call returned nothing and created no population
NothingReturned ==
    /\ last.outcome # "ok"
    /\ last.result = 0
    /\ Len(pops) = Len(last.pre_pops)

\* C1: the size of a merged population is the number of distinct
\* identifiers of the two inputs, not the sum of their sizes
C1_SizeIsDistinctCount ==
    Accepted => Result.n = Cardinality(Ids(L.index) \cup Ids(R.index))

\* C2: the index of a merged population holds exactly the identifiers of
\* left.index and right.index, each of them once
C2_IndexIsUnion ==
    Accepted =>
        /\ Result.index.tag = "ndarray"
        /\ Ids(Result.index) = Ids(L.index) \cup Ids(R.index)
        /\ NoDuplicates(Result.index.data)

\* an accepted merge of two different populations, the left one holding an
\* identifier twice and sharing an identifier with the right one
C2_Witness ==
    /\ Accepted
    /\ last.left # last.right
    /\ ~NoDuplicates(L.index.data)
    /\ Ids(L.index) \cap Ids(R.index) # {}
    /\ Ids(R.index) \ Ids(L.index) # {}

\* C3: every population that has an index has n = len(index), whatever
\* calls were made
C3_SizeIsLenOfIndex ==
    \A i \in DOMAIN pops :
        pops[i].index.tag # "None" => pops[i].n = Len(pops[i].index.data)

\* C4: a call of merge_populations leaves every population that existed
\* before the call, and every ctrl_index dict, as it was
C4_MergeLeavesInputs ==
    MergeEnded =>
        /\ \A i \in DOMAIN last.pre_pops : pops[i] = last.pre_pops[i]
        /\ \A j \in DOMAIN last.pre_ctrl : ctrl[j] = last.pre_ctrl[j]

C6_VoidWarningRecorded ==
    Accepted =>
        /\ (L.clusters # <<>> \/ R.clusters # <<>>)
              => ClustersVoid \in Range(Result.warnings)
        /\ (CtrlL # {} \/ CtrlR # {})
              => ControlsVoid \in Range(Result.warnings)

\* C7: an accepted polygon merge emits the void warnings a threshold merge
\* emits for the same clusters and control indexes
C7_PolygonVoidsLikeThreshold ==
    (Accepted /\ last.via = "_merge_polygons") =>
        /\ (L.clusters # <<>> \/ R.clusters # <<>>)
              => ClustersVoid \in Range(last.warned)
        /\ (CtrlL # {} \/ CtrlR # {})
              => ControlsVoid \in Range(last.warned)

\* C8 as stated: a merge of populations with different parents ends with
\* the parent-mismatch error, whatever else holds of the inputs
C8_AlwaysParentMismatch ==
    (MergeEnded /\ L.parent # R.parent) =>
        (last.outcome = ParentMismatch /\ NothingReturned)

\* C8 as amended: a merge of populations with different parents returns
\* nothing; its error is the parent-mismatch error when both geometries
\* are there with equal axes and transforms, and the error of the axis and
\* transform check, which runs first, when these differ
C8_ParentMismatchAfterAxes ==
    (MergeEnded /\ L.parent # R.parent) =>
        /\ NothingReturned
        /\ (BothGeoms /\ AxesEqual) => last.outcome = ParentMismatch
        /\ (BothGeoms /\ ~AxesEqual) => last.outcome \in AxisMismatch
        /\ ~BothGeoms => last.outcome = AttributeError

\* different parents, equal axes, a Threshold against a Polygon: the
\* parent-mismatch error
C8_Witness ==
    /\ MergeEnded
    /\ L.parent # R.parent
    /\ BothGeoms /\ AxesEqual
    /\ L.geom.kind = "Threshold" /\ R.geom.kind = "Polygon"
    /\ last.outcome = ParentMismatch

\* C9: when one of x, y, transform_x, transform_y differs between the two
\* geometries the merge ends with the axis-mismatch error and returns
\* nothing; when all four are equal it never ends with that error
C9_AxisMismatch ==
    (MergeEnded /\ BothGeoms) =>
        /\ ~AxesEqual => (last.outcome \in AxisMismatch /\ NothingReturned)
        /\ AxesEqual => last.outcome \notin AxisMismatch

\* only y differs, and the merge ends with the axis-mismatch error
C9_Witness ==
    /\ MergeEnded /\ BothGeoms
    /\ L.geom.x = R.geom.x
    /\ L.geom.transform_x = R.geom.transform_x
    /\ L.geom.transform_y = R.geom.transform_y
    /\ L.geom.y # R.geom.y
    /\ L.parent = R.parent
    /\ last.outcome = YDiffers

\* C10: with equal axes, transforms and parent, a Threshold merged with a
\* Polygon (either order) ends with the type-mismatch error before either
\* merge algorithm is entered; two geometries of one variant never end
\* with that error
C10_TypeMismatch ==
    (MergeEnded /\ BothGeoms /\ AxesEqual /\ L.parent = R.parent) =>
        /\ {L.geom.kind, R.geom.kind} = {"Threshold", "Polygon"}
              => /\ last.outcome = GeometryTypeMismatch
                 /\ NothingReturned
                 /\ last.via = "merge_populations"
        /\ L.geom.kind = R.geom.kind => last.outcome # GeometryTypeMismatch

\* a Polygon on the left and a Threshold on the right, rejected
C10_Witness ==
    /\ MergeEnded /\ BothGeoms /\ AxesEqual /\ L.parent = R.parent
    /\ L.geom.kind = "Polygon" /\ R.geom.kind = "Threshold"
    /\ last.outcome = GeometryTypeMismatch

\* two Threshold geometries on equal axes under one parent: every check
\* before the merge algorithm passes
ThresholdsAdmitted ==
    /\ MergeEnded
    /\ L.geom.kind = "Threshold" /\ R.geom.kind = "Threshold"
    /\ AxesEqual /\ L.parent = R.parent

CutsEqual ==
    /\ L.geom.x_threshold = R.geom.x_threshold
    /\ L.geom.y_threshold = R.geom.y_threshold

\* C11: a merge of two Threshold populations that passes the earlier checks
\* and whose x cuts or y cuts differ ends with the threshold-mismatch error
\* (the x cut is looked at first) and returns nothing; with both cuts equal
\* it never ends with that error
C11_ThresholdMismatch ==
    ThresholdsAdmitted =>
        /\ L.geom.x_threshold # R.geom.x_threshold
              => (last.outcome = XThresholdDiffers /\ NothingReturned)
        /\ (L.geom.x_threshold = R.geom.x_threshold
            /\ L.geom.y_threshold # R.geom.y_threshold)
              => (last.outcome = YThresholdDiffers /\ NothingReturned)
        /\ CutsEqual => last.outcome \notin ThresholdMismatch

\* the y cuts 2 and 3 against equal x cuts, rejected
C11_Witness ==
    /\ ThresholdsAdmitted
    /\ L.geom.x_threshold = R.geom.x_threshold
    /\ L.geom.y_threshold = 2 /\ R.geom.y_threshold = 3
    /\ last.outcome = YThresholdDiffers
    /\ last.via = "_merge_thresholds"

\* every check of merge_populations itself passes
ChecksPassed == MergeEnded /\ BothGeoms /\ AxesEqual /\ L.parent = R.parent

\* C12: two Polygon populations that pass the earlier checks and whose
\* shapes share no point end with the non-overlapping error inside
\* _merge_polygons: nothing is returned, nothing warned and no population
\* is touched; two Threshold populations never end with an overlap error
C12_OverlapPolygonOnly ==
    ChecksPassed =>
        /\ (/\ L.geom.kind = "Polygon" /\ R.geom.kind = "Polygon"
            /\ ~intersects(shape(L.geom), shape(R.geom)))
              => /\ last.outcome = NonOverlappingPopulations
                 /\ last.via = "_merge_polygons"
                 /\ NothingReturned
                 /\ last.warned = <<>>
                 /\ pops = last.pre_pops /\ ctrl = last.pre_ctrl
        /\ (L.geom.kind = "Threshold" /\ R.geom.kind = "Threshold")
              => last.outcome \notin {NonOverlappingPopulations, OnlyPolygon}

\* the square PolyA and the cell PolyD apart from it, rejected
C12_Witness ==
    /\ ChecksPassed
    /\ L.geom = PolyA /\ R.geom = PolyD
    /\ last.outcome = NonOverlappingPopulations

\* the name merge_populations builds from the names of its inputs
DefaultName ==
    "merge_" \o FormatName(L.population_name) \o "_" \o FormatName(R.population_name)

\* C16 as stated: the result carries the supplied name whenever a string
\* is supplied, and the built name only when the name is omitted
C16_NameAsSupplied ==
    Accepted =>
        /\ last.name # NoneStr => Result.population_name = last.name
        /\ last.name = NoneStr => Result.population_name = DefaultName

\* C16: the result carries the supplied name whenever a non-empty string
\* is supplied; when the name is omitted or is the empty string the result
\* is named merge_{left name}_{right name}
C16_NameUnlessEmpty ==
    Accepted =>
        /\ last.name \notin {NoneStr, ""} => Result.population_name = last.name
        /\ last.name \in {NoneStr, ""} => Result.population_name = DefaultName

\* an accepted merge called with the empty string as name
C16_Witness ==
    /\ Accepted
    /\ last.name = ""
    /\ L.population_name = "A" /\ R.population_name = "B"
    /\ Result.population_name = "merge_A_B"

\* the error kind the specification names for a union without one boundary
DegenerateMergeResult == "DegenerateMergeResult"

\* two Polygon populations that pass every check, the intersection check
\* included, and whose union is not one polygon
UnionInParts ==
    /\ ChecksPassed
    /\ L.geom.kind = "Polygon" /\ R.geom.kind = "Polygon"
    /\ intersects(shape(L.geom), shape(R.geom))
    /\ unary_union(shape(L.geom), shape(R.geom)).geom_type # "Polygon"

\* C20: when the union of two intersecting polygons is not one polygon the
\* merge either returns a population with a Polygon geometry or ends with
\* DegenerateMergeResult, never with another error
C20_DegeneratePolicy ==
    UnionInParts =>
        \/ last.outcome = DegenerateMergeResult
        \/ Accepted /\ Result.geom.kind = "Polygon"

\* how often v occurs in the sequence s
RECURSIVE Count(_, _)
Count(s, v) ==
    IF s = <<>> THEN 0
    ELSE (IF Head(s) = v THEN 1 ELSE 0) + Count(Tail(s), v)

\* C17: the warnings of a merged population are left.warnings, then
\* right.warnings, then the marker "MERGED POPULATION"; so the marker occurs
\* once more than in both inputs together, once per merge that led to the
\* population
C17_WarningsConcatenated ==
    Accepted =>
        /\ Result.warnings = L.warnings \o R.warnings \o <<MergedMarker>>
        /\ Count(Result.warnings, MergedMarker)
              = Count(L.warnings, MergedMarker) + Count(R.warnings, MergedMarker) + 1

\* the second merge of a chain: the left input is itself a merged
\* population, the right one a gated population with two warnings
C17_Witness ==
    /\ Accepted
    /\ last.left = 3 /\ last.right = 2
    /\ L.warnings = <<"low events", "no peak", "low events", MergedMarker>>
    /\ R.warnings = <<"no peak", "low events">>
    /\ Count(Result.warnings, MergedMarker) = 2

\* C18: a merged population has both proportions set, the proportion of
\* the parent between 0 and 100 percent
C18_ProportionsRecomputed ==
    Accepted =>
        /\ Result.prop_of_parent # NoneNum
        /\ Result.prop_of_total # NoneNum
        /\ Result.prop_of_parent \in 0..100

\* the state right after a call of overlap, its receiver and the geometry
\* whose shape it was given
OverlapEnded == last.op = "overlap"

Self == last.pre_pops[last.left].geom

Other == last.pre_pops[last.right].geom

\* a Polygon whose ring encloses a region
ProperPolygon(g) == g.kind = "Polygon" /\ ~ShapeFails(g) /\ area(shape(g)) > 0

\* two ratios of equal value
Same(q, r) == q[1] * r[2] = r[1] * q[2]

GeometryError == "GeometryError"

\* C15: overlap called on a geometry that is no Polygon, or on a Polygon
\* of fewer than three points or without area, ends with GeometryError
C15_GeometryError ==
    (/\ OverlapEnded
     /\ ProperPolygon(Other)
     /\ \/ Self.kind # "Polygon"
        \/ Len(Points(Self)) < 3
        \/ area(shape(Self)) = 0)
        => last.outcome = GeometryError

\* an accepted merge of two Polygon populations
PolygonsMerged == Accepted /\ L.geom.kind = "Polygon" /\ R.geom.kind = "Polygon"

\* the cells of both inputs, and the cells inside the ring of the result
UnionRegion == shape(L.geom).cells \cup shape(R.geom).cells

ResultRegion == shape(Result.geom).cells

\* the ring of the result is closed and runs along the grid, each of its
\* points a corner
RingWellFormed ==
    LET ring == Points(Result.geom)
        n == Len(ring)
    IN  /\ Len(Result.geom.x_values) = Len(Result.geom.y_values)
        /\ n >= 5
        /\ ring[1] = ring[n]
        /\ \A i \in 1..(n - 1) :
              (ring[i][1] = ring[i + 1][1]) # (ring[i][2] = ring[i + 1][2])
        /\ \A i \in 2..(n - 1) :
              (ring[i - 1][1] = ring[i][1]) # (ring[i][1] = ring[i + 1][1])

\* the axes and transforms of the result are those of both inputs
LabelsKept ==
    /\ Result.geom.x = L.geom.x /\ Result.geom.x = R.geom.x
    /\ Result.geom.y = L.geom.y /\ Result.geom.y = R.geom.y
    /\ Result.geom.transform_x = L.geom.transform_x
    /\ Result.geom.transform_x = R.geom.transform_x
    /\ Result.geom.transform_y = L.geom.transform_y
    /\ Result.geom.transform_y = R.geom.transform_y

\* C19 as stated: the region of the merged Polygon is exactly the union of
\* the two input regions, its ring is the boundary of that union, and its
\* axes and transforms are those of the inputs
C19_RegionIsUnion ==
    PolygonsMerged =>
        /\ Result.geom.kind = "Polygon"
        /\ ResultRegion = UnionRegion
        /\ RingWellFormed
        /\ LabelsKept

\* C19: the merged geometry is a Polygon whose ring is the outer boundary
\* of the union of the two input regions: its region covers both inputs,
\* and what it covers beyond them lies in holes of the union (no such cell
\* borders on the outside of the ring); its axes and transforms are
\* those of the inputs
C19_RegionIsFilledUnion ==
    PolygonsMerged =>
        /\ Result.geom.kind = "Polygon"
        /\ UnionRegion \subseteq ResultRegion
        /\ \A c \in ResultRegion \ UnionRegion :
              {<<c[1] + 1, c[2]>>, <<c[1] - 1, c[2]>>,
               <<c[1], c[2] + 1>>, <<c[1], c[2] - 1>>} \subseteq ResultRegion
        /\ RingWellFormed
        /\ LabelsKept

\* the U and the bar that closes it: the cell (1,1) lies inside the ring of
\* the result and in neither input
C19_Witness ==
    /\ PolygonsMerged
    /\ L.geom = PolyU /\ R.geom = PolyBar
    /\ ResultRegion \ UnionRegion = {<<1, 1>>}
    /\ Points(Result.geom) = << <<0, 0>>, <<0, 3>>, <<3, 3>>, <<3, 0>>, <<0, 0>> >>

\* the channels of both signatures, and those of one signature only
InBoth == Keys(L.signature) \cap Keys(R.signature)

InLeftOnly == Keys(L.signature) \ Keys(R.signature)

InRightOnly == Keys(R.signature) \ Keys(L.signature)

\* twice the mean is the sum
MeanOfBoth(c) ==
    2 * DictGet(Result.signature, c) = DictGet(L.signature, c) + DictGet(R.signature, c)

\* C21 as stated: a channel of both signatures is mapped to the mean of its
\* two values, a channel of one signature only to no number, never to the
\* value of that signature
C21_SingleChannelUndefined ==
    Accepted =>
        /\ \A c \in InBoth : c \in Keys(Result.signature) /\ MeanOfBoth(c)
        /\ \A c \in InLeftOnly :
              c \in Keys(Result.signature)
                 => DictGet(Result.signature, c) # DictGet(L.signature, c)
        /\ \A c \in InRightOnly :
              c \in Keys(Result.signature)
                 => DictGet(Result.signature, c) # DictGet(R.signature, c)

\* C21: the merged signature has the channels of either input; a channel of
\* both is mapped to the mean of its two values, a channel of one input
\* only to the value of that input (the mean over the values present)
C21_MeanOverPresent ==
    Accepted =>
        /\ Keys(Result.signature) = Keys(L.signature) \cup Keys(R.signature)
        /\ \A c \in InBoth : MeanOfBoth(c)
        /\ \A c \in InLeftOnly :
              DictGet(Result.signature, c) = DictGet(L.signature, c)
        /\ \A c \in InRightOnly :
              DictGet(Result.signature, c) = DictGet(R.signature, c)

\* CD3 in both signatures with 2 and 4, CD8 in the left one only
C21_Witness ==
    /\ Accepted
    /\ L.signature = {<<"CD3", 2>>, <<"CD8", 2>>}
    /\ R.signature = {<<"CD3", 4>>}
    /\ Result.signature = {<<"CD3", 3>>, <<"CD8", 2>>}

\* C22: every Cluster that has an index has n = len(index), after the
\* setter and after a construction with an index argument alike
C22_ClusterSizeIsLenOfIndex ==
    \A c \in DOMAIN clus :
        HasLen(clus[c].index) => clus[c].n = Len(clus[c].index.data)

\* C30: every call of add_cluster has succeeded, the ids of the clusters
\* of the experiment are pairwise distinct, and every cluster of the
\* experiment has its dataset in the file
C30_AddClusterKeepsAll ==
    /\ last.op = "add_cluster" => last.outcome = "ok"
    /\ \A i \in DOMAIN exper.clusters, j \in DOMAIN exper.clusters :
          i # j => exper.clusters[i].cluster_id # exper.clusters[j].cluster_id
    /\ \A i \in DOMAIN exper.clusters :
          exper.clusters[i].cluster_id \in Keys(exper.file)

\* C29: a call of set_ctrl_index that fails leaves every ctrl_index dict
\* as it was before the call
C29_SetCtrlIndexAllOrNothing ==
    (last.op = "set_ctrl_index" /\ last.outcome # "ok") => ctrl = last.pre_ctrl

\* C26: a call of merge_populations that returns no population leaves
\* every population and every ctrl_index dict as it was before the call
C26_FailedMergeLeavesInputs ==
    (MergeEnded /\ last.outcome # "ok") =>
        /\ pops = last.pre_pops
        /\ ctrl = last.pre_ctrl

\* the validation errors the specification names for a merge
Taxonomy ==
    AxisMismatch \cup ThresholdMismatch
    \cup {GeometryTypeMismatch, ParentMismatch, NonOverlappingPopulations,
          DegenerateMergeResult}

\* C24: every call of merge_populations returns a population or ends with
\* one of the named validation errors
C24_OnlyNamedErrors ==
    MergeEnded => (last.outcome = "ok" \/ last.outcome \in Taxonomy)

\* how the same call ends with its two arguments exchanged
Exchanged == merge_populations(R, L, last.name, CtrlR, CtrlL)

\* C27: among the calls that reach the type check, a call is rejected with
\* the type-mismatch error exactly when the call with the arguments
\* exchanged is, and it passes the check only when both geometries are of
\* the same variant
C27_TypeCheckSymmetric ==
    ChecksPassed =>
        /\ (last.outcome = GeometryTypeMismatch)
              <=> (Exchanged.outcome = GeometryTypeMismatch)
        /\ last.outcome # GeometryTypeMismatch => L.geom.kind = R.geom.kind

\* C25: the checks run in the order axes and transforms, parent, type,
\* then cuts (Threshold) or intersection (Polygon); the error of a call is
\* that of the first check its inputs violate, and a call that ends with
\* an error has returned nothing and touched no population
C25_EarliestCheckReported ==
    (MergeEnded /\ BothGeoms) =>
        LET axes == ~AxesEqual
            parent == L.parent # R.parent
            variant == L.geom.kind # R.geom.kind
        IN  /\ axes => /\ last.outcome \in AxisMismatch
                       /\ last.via = "_check_transforms_dimensions"
            /\ (~axes /\ parent) => /\ last.outcome = ParentMismatch
                                    /\ last.via = "merge_populations"
            /\ (~axes /\ ~parent /\ variant)
                  => /\ last.outcome = GeometryTypeMismatch
                     /\ last.via = "merge_populations"
            /\ (~axes /\ ~parent /\ ~variant /\ L.geom.kind = "Threshold" /\ ~CutsEqual)
                  => last.outcome \in ThresholdMismatch
            /\ (/\ ~axes /\ ~parent /\ ~variant /\ L.geom.kind = "Polygon"
                /\ ~intersects(shape(L.geom), shape(R.geom)))
                  => last.outcome = NonOverlappingPopulations
            /\ last.outcome # "ok" => (NothingReturned /\ pops = last.pre_pops)

\* how merge_populations(a, b) ends, and the population it returns
MergeOf(a, b) == merge_populations(a, b, NoneStr, {}, {})

Merged(a, b) == Population(MergeOf(a, b).kw, 0)

\* C28: the population returned by a merge of two Threshold populations
\* has the parent and the geometry (axes, transforms, cuts) of its inputs;
\* it can be merged with either input and with any other population of
\* the gate, on either side; and for a third population c the index of
\* (left + right) + c is that of left + (right + c) and of
\* (right + left) + c
C28_ThresholdMergeRepeats ==
    (Accepted /\ L.geom.kind = "Threshold" /\ R.geom.kind = "Threshold") =>
        /\ Result.parent = L.parent /\ Result.parent = R.parent
        /\ Result.geom = L.geom /\ Result.geom = R.geom
        /\ \A c \in {L, R} \cup RepeatPops :
              /\ MergeOf(Result, c).outcome = "ok"
              /\ MergeOf(c, Result).outcome = "ok"
              /\ MergeOf(R, c).outcome = "ok"
              /\ Merged(Result, c).index = Merged(L, Merged(R, c)).index
              /\ Merged(Result, c).index = Merged(Merged(R, L), c).index
              /\ Merged(Result, c).index = Merged(c, Result).index

\* the second merge of a chain: the result of the first merge, merged
\* with one of its own inputs
C28_Witness ==
    /\ Accepted
    /\ last.left = 3 /\ last.right = 2
    /\ L.index = Arr(<<1, 2, 3, 5>>)
    /\ R.index = Arr(<<5, 3, 5>>)
    /\ Result.index = Arr(<<1, 2, 3, 5>>)
    /\ Result.geom = T0

\* the heap a call starts on when the calls of the set before have run to
\* their end, one after the other: each has rebound the clusters of its
\* left argument (the populations they returned are no argument of a call)
RECURSIVE HeapAfter(_, _)
HeapAfter(heap, before) ==
    IF before = {}
    THEN heap
    ELSE LET q == CHOOSE q \in before : TRUE
             h == HeapAfter(heap, before \ {q})
             res == merge_populations(h[procs[q].left], h[procs[q].right],
                                      NoneStr, {}, {})
         IN  voided(h, procs[q].left, res.left_clusters)

\* call p has ended as it does when it runs after the calls of before
AsInSequence(p, before) ==
    LET l == procs[p].left
        r == procs[p].right
        h == HeapAfter(procs[p].pre_pops, before)
        res == merge_populations(h[l], h[r], NoneStr, {}, {})
    IN  /\ procs[p].outcome = res.outcome
        /\ procs[p].warned = res.warned
        /\ pops[l] = [h[l] EXCEPT !.clusters = res.left_clusters]
        /\ pops[r] = h[r]
        /\ res.outcome = "ok" =>
              /\ procs[p].result \in DOMAIN pops \ DOMAIN procs[p].pre_pops
              /\ pops[procs[p].result] =
                     Population(res.kw, pops[procs[p].result].ctrl_index)
              /\ ctrl[pops[procs[p].result].ctrl_index] = {}
              /\ \A i \in DOMAIN pops \ {procs[p].result} :
                     pops[i].ctrl_index # pops[procs[p].result].ctrl_index

\* C23: two merges that run concurrently on disjoint pairs of populations
\* end, under every interleaving of their steps, as they do one after the
\* other in either order: each returns the same population with the same
\* warnings or fails the same way, and leaves its two inputs in the same
\* state.
C23_ConcurrentMergesSafe ==
    \A p \in DOMAIN procs :
        procs[p].pc = "done" =>
            \A before \in SUBSET (DOMAIN procs \ {p}) : AsInSequence(p, before)

\* both calls have returned a population; the first voided the clusters of
\* its left input and built its result after the second had voided its own
\* and before the second built
C23_Witness ==
    /\ Len(procs) = 2
    /\ \A p \in DOMAIN procs : procs[p].pc = "done" /\ procs[p].outcome = "ok"
    /\ procs[1].among = {"build"}
    /\ procs[1].warned = <<ClustersVoid>> /\ procs[2].warned = <<ClustersVoid>>
    /\ procs[1].pre_pops[1].clusters # <<>> /\ pops[1].clusters = <<>>
    /\ procs[1].pre_pops[4].clusters # <<>> /\ pops[4].clusters # <<>>
    /\ procs[1].result = 5 /\ procs[2].result = 6

====
